---- MODULE Spec2Model ----
(***************************************************************************)
(* A model of pyping.py: the ICMP codec (Icmp._checksum, Icmp.pack,        *)
(* Icmp.unpack) as operators over byte sequences, and the probe engine     *)
(* (Pying.run and the methods it calls) as a state machine whose steps are *)
(* the blocking points of run(): socket set-up, one send per cycle, one    *)
(* select/recvfrom per iteration of the wait loop, the sleep after a       *)
(* match, and the summary.                                                 *)
(*                                                                         *)
(* struct's native byte order is taken as little-endian (x86, ARM), the    *)
(* order Icmp._checksum itself assembles its 16-bit words in.              *)
(* Time is counted in whole milliseconds.                                  *)
(***************************************************************************)
EXTENDS Integers, Sequences, FiniteSets, TLC

VARIABLES
    pc,             \* where run() stands
    cycles,         \* Pying.cycles: None or an integer
    _completed,     \* Pying._completed
    _sequence,      \* Pying._sequence
    identity,       \* Pying.identity
    _stats,         \* Pying._stats: the RTT samples, in append order
    _request_time,  \* Pying._request_time
    _socket,        \* Pying._socket: None, or the raw socket and its state
    first,          \* run()'s local `first`
    received,       \* run()'s local `received`
    now,            \* the clock read by _get_time(), in ms
    net,            \* the datagrams queued on the raw socket, oldest first
    transport,      \* how the network answers: "echo", "silent" or "any"
    sent,           \* every packet handed to sendto(), in order
    printed,        \* every line printed, in order
    ev,             \* what the last call of receive() did
    err,            \* the exception that left run(), or None
    sleeps,         \* how many times time.sleep() was called
    fn,             \* codec / arithmetic harness: which function is applied
    arg,            \* ... its arguments
    res,            \* ... its result
    cycle_start     \* history: the counters as the current cycle began

vars == <<pc, cycles, _completed, _sequence, identity, _stats, _request_time,
          _socket, first, received, now, net, transport, sent, printed, ev,
          err, sleeps, fn, arg, res, cycle_start>>

runvars == <<pc, cycles, _completed, _sequence, identity, _stats,
             _request_time, _socket, first, received, now, net, transport,
             sent, printed, ev, err, sleeps, cycle_start>>

\* Python's None, and a value that is not None: an optional field holds the
\* empty set or a singleton
None == {}
Some(x) == {x}
The(o) == CHOOSE x \in o : TRUE

----------------------------------------------------------------------------
(* Bounds of the model.                                                    *)

\* the largest -c value tried, and the cap on _sequence of an unbounded run
MaxCycles == 3
\* the clock stops advancing here
MaxTime == 1
\* datagrams queued on the socket at once
MaxNet == 1
\* the longest payload given to the codec harness
MaxLen == 3
\* the largest transmitted count given to the packet-loss harness
MaxTransmitted == 13
\* the longest list of samples given to the statistics harness
MaxSamples == 3
\* the longest byte string a checksum is computed of
MaxMsg == 6

----------------------------------------------------------------------------
(* Program constants.                                                      *)

TYPE_ECHO_REPLY == 0
TYPE_ECHO_REQUEST == 8
\* packed[20:] : the IP header unpack() skips
IpHeaderLen == 20
\* calcsize('bbHHh')
HeaderLen == 8

\* "Ping Pong"
PingPong == <<80, 105, 110, 103, 32, 80, 111, 110, 103>>

----------------------------------------------------------------------------
(* struct.pack / struct.unpack with format 'bbHHh'.                        *)

\* 'b': signed char
FitsB(x) == x \in -128..127
\* 'H': unsigned short
FitsH(x) == x \in 0..65535
\* 'h': signed short
Fitsh(x) == x \in -32768..32767

\* a 16-bit value as two bytes, low byte first
LE16(x) == <<x % 256, x \div 256>>

\* a signed value as its two's-complement bit pattern of w bits
Unsigned(x, m) == IF x < 0 THEN x + m ELSE x
Signed(x, m) == IF x >= m \div 2 THEN x - m ELSE x

\* struct.pack('bbHHh', ...) succeeds
StructFits(t, c, cs, id, sq) ==
    FitsB(t) /\ FitsB(c) /\ FitsH(cs) /\ FitsH(id) /\ Fitsh(sq)

\* the fields packed in network order ('!bbHHh'), high byte first
StructPack_network(t, c, cs, id, sq) ==
    <<Unsigned(t, 256), Unsigned(c, 256),
      cs \div 256, cs % 256, id \div 256, id % 256,
      Unsigned(sq, 65536) \div 256, Unsigned(sq, 65536) % 256>>

\* struct.pack('bbHHh', t, c, cs, id, sq), when it succeeds
StructPack(t, c, cs, id, sq) ==
    <<Unsigned(t, 256), Unsigned(c, 256)>> \o LE16(cs) \o LE16(id)
        \o LE16(Unsigned(sq, 65536))

\* struct.unpack('bbHHh', h) for an 8-byte h
StructUnpack(h) ==
    [icmp_type |-> Signed(h[1], 256),
     icmp_code |-> Signed(h[2], 256),
     csum      |-> h[3] + 256 * h[4],
     identity  |-> h[5] + 256 * h[6],
     sequence  |-> Signed(h[7] + 256 * h[8], 65536)]

----------------------------------------------------------------------------
(* Icmp                                                                    *)

\* an addition that drops the carry
CarryAroundAdd_nocarry(a, b) == (a + b) % 65536

\* c = a + b; (c & 0xffff) + (c >> 16)
CarryAroundAdd(a, b) == ((a + b) % 65536) + ((a + b) \div 65536)

\* the for loop of _checksum over msg[i..], s the running sum
RECURSIVE ChecksumLoop(_, _, _)
ChecksumLoop(msg, i, s) ==
    IF i > Len(msg) THEN s
    ELSE ChecksumLoop(msg, i + 2,
                      CarryAroundAdd(s, msg[i] + msg[i + 1] * 256))

\* Icmp._checksum(msg)
Checksum(msg) ==
    LET padded == IF Len(msg) % 2 # 0 THEN Append(msg, 0) ELSE msg
    IN  65535 - ChecksumLoop(padded, 1, 0)

\* Icmp.pack(identity, icmp_type, data, sequence): ok is FALSE when
\* struct.pack raises struct.error
Pack(id, icmp_type, data, sq) ==
    IF ~StructFits(icmp_type, 0, 0, id, sq)
    THEN [ok |-> FALSE, packet |-> <<>>, size_header |-> 0, size_data |-> 0]
    ELSE LET header0 == StructPack(icmp_type, 0, 0, id, sq)
             csum    == Checksum(header0 \o data)
             header  == StructPack(icmp_type, 0, csum, id, sq)
         IN  [ok |-> TRUE, packet |-> header \o data,
              size_header |-> Len(header), size_data |-> Len(data)]

\* packed[a:] of Python
SliceFrom(s, a) == IF a >= Len(s) THEN <<>> ELSE SubSeq(s, a + 1, Len(s))
\* packed[:b] of Python
SliceTo(s, b) == IF b >= Len(s) THEN s ELSE SubSeq(s, 1, b)

\* Icmp.unpack(packed): ok is FALSE when struct.unpack raises struct.error
Unpack(packed) ==
    LET without_ip_header == SliceFrom(packed, IpHeaderLen)
        header == SliceTo(without_ip_header, HeaderLen)
        data   == SliceFrom(without_ip_header, HeaderLen)
    IN  IF Len(header) # HeaderLen
        THEN [ok |-> FALSE]
        ELSE [ok |-> TRUE, f |-> StructUnpack(header), data |-> data]

----------------------------------------------------------------------------
(* Pying: the pure helpers                                                 *)

\* the loss as a true percentage
PacketLoss_percent(completed, sequence) ==
    IF completed = 0 THEN 100
    ELSE 100 - ((100 * completed) \div sequence)

\* no loss reported when nothing came back
PacketLoss_inverted(completed, sequence) ==
    IF completed = 0 THEN 0
    ELSE 100 - (100 * (completed \div sequence))

\* Pying._get_packet_loss, as a function of _completed and _sequence
\* (Python 2: / on two ints is floor division)
PacketLoss(completed, sequence) ==
    IF completed = 0 THEN 100
    ELSE 100 - (100 * (completed \div sequence))

RECURSIVE Sum(_)
Sum(s) == IF s = <<>> THEN 0 ELSE Head(s) + Sum(Tail(s))

RECURSIVE SumSq(_)
SumSq(s) == IF s = <<>> THEN 0 ELSE Head(s) * Head(s) + SumSq(Tail(s))

Min(s) == CHOOSE x \in {s[i] : i \in 1..Len(s)} :
              \A j \in 1..Len(s) : x <= s[j]
Max(s) == CHOOSE x \in {s[i] : i \in 1..Len(s)} :
              \A j \in 1..Len(s) : x >= s[j]

\* the integer nearest to sqrt(a / b), by bisection on [lo, hi]
SqrtAtLeast(a, b, m) ==
    \/ m = 0
    \/ a \div b > m * m - m
    \/ a \div b = m * m - m /\ 4 * (a % b) >= b
RECURSIVE RoundSqrt(_, _, _, _)
RoundSqrt(a, b, lo, hi) ==
    IF lo >= hi THEN lo
    ELSE LET mid == (lo + hi + 1) \div 2
         IN  IF SqrtAtLeast(a, b, mid) THEN RoundSqrt(a, b, mid, hi)
             ELSE RoundSqrt(a, b, lo, mid - 1)

\* the deviation of a sample (divided by n - 1) instead of a population
RttStats_sample(stats) ==
    LET n == Len(stats)
        d == n * SumSq(stats) - Sum(stats) * Sum(stats)
    IN  [min  |-> 1000 * Min(stats),
         avg  |-> (2 * 1000 * Sum(stats) + n) \div (2 * n),
         max  |-> 1000 * Max(stats),
         mdev |-> IF n = 1 THEN 0
                  ELSE RoundSqrt(1000000 * d, n * (n - 1), 0,
                                 1000 * (Max(stats) - Min(stats)) + 1)]

\* Pying._get_rtt_stats(stats) for a non-empty list of whole milliseconds;
\* each result is round(x, 3) in thousandths of a millisecond
RttStats(stats) ==
    LET n == Len(stats)
        d == n * SumSq(stats) - Sum(stats) * Sum(stats)
    IN  [min  |-> 1000 * Min(stats),
         avg  |-> (2 * 1000 * Sum(stats) + n) \div (2 * n),
         max  |-> 1000 * Max(stats),
         mdev |-> RoundSqrt(1000000 * d, n * n, 0,
                            1000 * (Max(stats) - Min(stats)) + 1)]

----------------------------------------------------------------------------
(* The network                                                             *)

\* the process ids os.getpid() may return; the second does not fit 'H'
Pids == {4660, 70000}
\* the identifiers seen in datagrams on the wire: ours and another ping's
WireIds == {4660, 4661}
\* the sequence numbers seen in datagrams on the wire
WireSequences == {1, 2}

IpStub == [i \in 1..IpHeaderLen |-> 0]

\* the Echo Reply a host returns to an Echo Request: identifier, sequence
\* and payload echoed
EchoReplyTo(packet) ==
    LET u == StructUnpack(SubSeq(packet, 1, HeaderLen))
    IN  IpStub \o Pack(u.identity, TYPE_ECHO_REPLY,
                       SliceFrom(packet, HeaderLen), u.sequence).packet

\* a datagram cut short of its ICMP header: 27 bytes
ShortDatagram == IpStub \o <<0, 0, 0, 0, 0, 0, 0>>

\* what may arrive on the raw socket
Datagrams ==
    {IpStub \o Pack(id, t, PingPong, sq).packet :
        id \in WireIds, t \in {TYPE_ECHO_REPLY, TYPE_ECHO_REQUEST},
        sq \in WireSequences}
    \cup {ShortDatagram}

----------------------------------------------------------------------------
(* Pying                                                                   *)

\* Pying.__init__, and the environment the run will meet
Init ==
    /\ pc = "main"
    /\ cycles = None
    /\ _completed = 0
    /\ _sequence = 0
    /\ identity = None
    /\ _stats = <<>>
    /\ _request_time = None
    /\ _socket = "None"
    /\ first = FALSE
    /\ received = FALSE
    /\ now = 0
    /\ net = <<>>
    /\ transport \in {"echo", "silent", "any"}
    /\ sent = <<>>
    /\ printed = <<>>
    /\ ev = "none"
    /\ err = "None"
    /\ sleeps = 0
    /\ fn = "idle"
    /\ arg = <<>>
    /\ res = <<>>
    /\ cycle_start = None

\* __main__: cycles = int(args["-c"]), left None when int() raises
Main ==
    /\ pc = "main"
    /\ \E c \in {None} \cup {Some(n) : n \in 0..MaxCycles} : cycles' = c
    /\ pc' = "run"
    /\ UNCHANGED <<_completed, _sequence, identity, _stats, _request_time,
                   _socket, first, received, now, net, transport, sent,
                   printed, ev, err, sleeps, fn, arg, res,
                   cycle_start>>

\* run(): _setup_socket(), first = True, identity = os.getpid()
SetupSocket ==
    /\ pc = "run"
    /\ \/ /\ _socket' = "open"
          /\ first' = TRUE
          /\ \E p \in Pids : identity' = Some(p)
          /\ pc' = "loop"
          /\ err' = err
       \/ /\ err' = "socket.error"
          /\ pc' = "raised"
          /\ UNCHANGED <<_socket, first, identity>>
    /\ UNCHANGED <<cycles, _completed, _sequence, _stats, _request_time,
                   received, now, net, transport, sent, printed, ev, sleeps,
                   fn, arg, res,
                   cycle_start>>

\* a loop test that runs one cycle too many
LoopCondition_inclusive ==
    IF cycles = None THEN TRUE ELSE _sequence <= The(cycles)

\* the test of run()'s while loop
LoopCondition == IF cycles = None THEN TRUE ELSE _sequence < The(cycles)

\* a sequence that is sent again after a timeout
NextSequence_retry == IF ev = "timeout" THEN _sequence ELSE _sequence + 1

\* self._sequence += 1
NextSequence == _sequence + 1

\* one pass of the while body up to the wait loop: stamp, count, pack,
\* print the header row, send
BeginCycle ==
    /\ pc = "loop"
    /\ LoopCondition
    /\ _sequence < MaxCycles
    /\ _request_time' = Some(now)
    /\ _sequence' = NextSequence
    /\ LET p == Pack(The(identity), TYPE_ECHO_REQUEST, PingPong,
                     NextSequence)
       IN  IF ~p.ok
           THEN /\ err' = "struct.error"
                /\ pc' = "raised"
                /\ UNCHANGED <<printed, sent, net, received>>
           ELSE /\ printed' = IF first
                              THEN Append(printed,
                                     [line |-> "header",
                                      size_data |-> p.size_data,
                                      size |-> p.size_header + p.size_data])
                              ELSE printed
                /\ \/ /\ err' = "socket.gaierror"
                      /\ pc' = "raised"
                      /\ UNCHANGED <<sent, net, received>>
                   \/ /\ sent' = Append(sent, p.packet)
                      /\ net' = IF transport = "echo"
                                THEN Append(net, EchoReplyTo(p.packet))
                                ELSE net
                      /\ received' = FALSE
                      /\ pc' = "wait"
                      /\ err' = err
    /\ cycle_start' = Some([completed |-> _completed, stats |-> _stats,
                             identity |-> identity, sequence |-> _sequence])
    /\ UNCHANGED <<cycles, _completed, identity, _stats, _socket, first, now,
                   transport, ev, sleeps, fn, arg, res>>

\* an acceptance test that forgets the identifier
Accepts_anyid(f) == f.icmp_type = TYPE_ECHO_REPLY

\* receive() accepts the datagram with these fields
Accepts(f) == f.icmp_type = TYPE_ECHO_REPLY /\ f.identity = The(identity)

\* Pying._get_response_time
ResponseTime == now - The(_request_time)

\* a timeout after which the cycle sleeps like a matched one
AfterTimeout_sleep == "sleep"
\* a timeout after which the same cycle polls again
AfterTimeout_wait == "wait"

\* except SocketTimeout: pass -- the wait loop is left for the loop head
AfterTimeout == "loop"

\* a match after which the wait loop keeps polling
AfterMatch_wait == "wait"

\* receive() returned True: received = True ends the wait loop after
\* the sleep
AfterMatch == "sleep"

\* one iteration of the wait loop: receive() and what run() does with its
\* result or its exception
Receive ==
    /\ pc = "wait"
    /\ IF net = <<>>
       THEN /\ ev' = "timeout"
            /\ first' = FALSE
            /\ pc' = AfterTimeout
            /\ UNCHANGED <<net, _stats, printed, received, _completed, err>>
       ELSE LET u == Unpack(Head(net))
            IN  /\ net' = Tail(net)
                /\ IF ~u.ok
                   THEN /\ ev' = "error"
                        /\ err' = "struct.error"
                        /\ pc' = "raised"
                        /\ UNCHANGED <<_stats, printed, received, _completed,
                                       first>>
                   ELSE IF Accepts(u.f)
                   THEN /\ ev' = "match"
                        /\ _stats' = Append(_stats, ResponseTime)
                        /\ printed' = Append(printed,
                                        [line |-> "row",
                                         bytes |-> Len(Head(net)),
                                         icmp_seq |-> u.f.sequence,
                                         time |-> ResponseTime])
                        /\ received' = TRUE
                        /\ _completed' = _completed + 1
                        /\ pc' = AfterMatch
                        /\ UNCHANGED <<first, err>>
                   ELSE /\ ev' = "discard"
                        /\ pc' = "wait"
                        /\ UNCHANGED <<_stats, printed, received, _completed,
                                       first, err>>
    /\ UNCHANGED <<cycles, _sequence, identity, _request_time, _socket, now,
                   transport, sent, sleeps, fn, arg, res,
                   cycle_start>>

\* time.sleep(float(self.interval)) after a match, then first = False
Sleep ==
    /\ pc = "sleep"
    /\ sleeps' = sleeps + 1
    /\ first' = FALSE
    /\ pc' = "loop"
    /\ UNCHANGED <<cycles, _completed, _sequence, identity, _stats,
                   _request_time, _socket, received, now, net, transport,
                   sent, printed, ev, err, fn, arg, res,
                   cycle_start>>

\* a summary printed on the way out of a failed run as well (try/finally)
ExitLoop_finally ==
    /\ \/ pc = "loop" /\ ~LoopCondition
       \/ pc = "raised" /\ err # "ValueError"
    /\ pc' = "summary"
    /\ UNCHANGED <<cycles, _completed, _sequence, identity, _stats,
                   _request_time, _socket, first, received, now, net,
                   transport, sent, printed, ev, err, sleeps, fn, arg, res,
                   cycle_start>>

\* the while loop ends
ExitLoop ==
    /\ pc = "loop"
    /\ ~LoopCondition
    /\ pc' = "summary"
    /\ UNCHANGED <<cycles, _completed, _sequence, identity, _stats,
                   _request_time, _socket, first, received, now, net,
                   transport, sent, printed, ev, err, sleeps, fn, arg, res,
                   cycle_start>>

\* Pying._print_summary: min() of an empty list raises ValueError
PrintSummary ==
    /\ pc = "summary"
    /\ LET counts == [line |-> "statistics",
                      transmitted |-> _sequence,
                      received |-> _completed,
                      packet_loss |-> PacketLoss(_completed, _sequence),
                      time |-> Sum(_stats)]
       IN  IF _stats = <<>>
           THEN /\ printed' = Append(printed, counts)
                /\ err' = "ValueError"
                /\ pc' = "raised"
           ELSE /\ printed' = printed \o
                      <<counts, [line |-> "rtt", rtt |-> RttStats(_stats)]>>
                /\ err' = err
                /\ pc' = "done"
    /\ UNCHANGED <<cycles, _completed, _sequence, identity, _stats,
                   _request_time, _socket, first, received, now, net,
                   transport, sent, ev, sleeps, fn, arg, res,
                   cycle_start>>

\* time passes while run() blocks in select() or sleep()
Tick ==
    /\ pc \in {"wait", "sleep"}
    /\ now < MaxTime
    /\ now' = now + 1
    /\ UNCHANGED <<pc, cycles, _completed, _sequence, identity, _stats,
                   _request_time, _socket, first, received, net, transport,
                   sent, printed, ev, err, sleeps, fn, arg, res,
                   cycle_start>>

\* a datagram arrives on the raw socket
Arrive ==
    /\ transport = "any"
    /\ _socket = "open"
    /\ pc \in {"wait", "sleep"}
    /\ Len(net) < MaxNet
    /\ \E d \in Datagrams : net' = Append(net, d)
    /\ UNCHANGED <<pc, cycles, _completed, _sequence, identity, _stats,
                   _request_time, _socket, first, received, now, transport,
                   sent, printed, ev, err, sleeps, fn, arg, res,
                   cycle_start>>

Next ==
    \/ Main
    \/ SetupSocket
    \/ BeginCycle
    \/ Receive
    \/ Sleep
    \/ ExitLoop
    \/ PrintSummary
    \/ Tick
    \/ Arrive

Spec == Init /\ [][Next]_vars

\* BeginCycle can be taken; every branch of it changes pc and _sequence, so
\* this is ENABLED <<BeginCycle>>_vars
BeginCycleEnabled == pc = "loop" /\ LoopCondition /\ _sequence < MaxCycles

\* weak fairness of BeginCycle, with its enabling condition written out
BeginCycleFair ==
    []<>(~BeginCycleEnabled) \/ []<><<BeginCycle>>_vars

\* run() is one thread that is never suspended for good: select() returns
\* within its timeout and sleep() within the interval. The clock and the
\* network (Tick, Arrive) owe nothing.
FairSpec ==
    /\ Spec
    /\ WF_vars(Main)
    /\ WF_vars(SetupSocket)
    /\ BeginCycleFair
    /\ WF_vars(Receive)
    /\ WF_vars(Sleep)
    /\ WF_vars(ExitLoop)
    /\ WF_vars(PrintSummary)

----------------------------------------------------------------------------
(* Harnesses: a pure function applied to inputs drawn from bounded sets.   *)

\* an engine that is not running
EngineIdle ==
    /\ pc = "harness"
    /\ cycles = None
    /\ identity = None
    /\ _stats = <<>>
    /\ _request_time = None
    /\ _socket = "None"
    /\ first = FALSE
    /\ received = FALSE
    /\ now = 0
    /\ net = <<>>
    /\ transport = "silent"
    /\ sent = <<>>
    /\ printed = <<>>
    /\ ev = "none"
    /\ err = "None"
    /\ sleeps = 0
    /\ cycle_start = None

\* the counters of a run about to print its summary
InitLoss ==
    /\ EngineIdle
    /\ _sequence \in 1..MaxTransmitted
    /\ _completed \in 0.._sequence
    /\ fn = "args"
    /\ arg = <<>>
    /\ res = <<>>

\* packet_loss = self._get_packet_loss()
GetPacketLoss ==
    /\ fn = "args"
    /\ fn' = "packet_loss"
    /\ res' = PacketLoss(_completed, _sequence)
    /\ UNCHANGED <<runvars, arg>>

NextLoss == GetPacketLoss

SpecLoss == InitLoss /\ [][NextLoss]_vars

\* the bytes payloads are made of
PayloadBytes == {0, 1, 128, 255}
\* every payload of at most MaxLen bytes
Payloads == UNION {[1..n -> PayloadBytes] : n \in 0..MaxLen}
\* identifiers and sequences around the limits of 'H' and 'h'
CodecIds == {0, 1, 4660, 65535, 65536}
CodecSeqs == {0, 1, 255, 256, 32767, 32768}

InitCodec ==
    /\ EngineIdle
    /\ _sequence = 0
    /\ _completed = 0
    /\ fn = "args"
    /\ arg \in [identity : CodecIds, sequence : CodecSeqs, data : Payloads]
    /\ res = <<>>

\* Icmp.pack(identity, Icmp.TYPE_ECHO_REQUEST, data, sequence)
ApplyPack ==
    /\ fn = "args"
    /\ fn' = "pack"
    /\ res' = Pack(arg.identity, TYPE_ECHO_REQUEST, arg.data, arg.sequence)
    /\ UNCHANGED <<runvars, arg>>

\* Icmp._checksum(packet) of the packet pack() returned
ApplyChecksum ==
    /\ fn = "pack"
    /\ res.ok
    /\ fn' = "checksum"
    /\ res' = [packet |-> res.packet, csum |-> Checksum(res.packet)]
    /\ UNCHANGED <<runvars, arg>>

\* Icmp.unpack of the packet pack() returned, behind a 20-byte IP header
ApplyUnpack ==
    /\ fn = "pack"
    /\ res.ok
    /\ fn' = "unpack"
    /\ res' = Unpack(IpStub \o res.packet)
    /\ UNCHANGED <<runvars, arg>>

NextCodec == ApplyPack \/ ApplyChecksum \/ ApplyUnpack

SpecCodec == InitCodec /\ [][NextCodec]_vars

\* the samples, in ms, the statistics are tried on
SampleValues == {10, 11, 20, 30}
\* every non-empty list of at most MaxSamples samples
SampleLists == UNION {[1..n -> SampleValues] : n \in 1..MaxSamples}

\* the samples of a run about to print its rtt line
InitRtt ==
    /\ EngineIdle
    /\ _sequence = 0
    /\ _completed = 0
    /\ fn = "args"
    /\ arg \in SampleLists
    /\ res = <<>>

\* rtt = self._get_rtt_stats(self._stats)
GetRttStats ==
    /\ fn = "args"
    /\ fn' = "rtt"
    /\ res' = RttStats(arg)
    /\ UNCHANGED <<runvars, arg>>

NextRtt == GetRttStats

SpecRtt == InitRtt /\ [][NextRtt]_vars

\* every byte string of at most MaxMsg bytes
Messages == UNION {[1..n -> PayloadBytes] : n \in 0..MaxMsg}

\* msg += "\x00" when len(msg) is odd
Padded(msg) == IF Len(msg) % 2 # 0 THEN Append(msg, 0) ELSE msg

\* the value of s after each pass of the for loop of _checksum, the
\* initial s = 0 first
RunningSums(msg) ==
    [k \in 1..(Len(Padded(msg)) \div 2 + 1) |->
        ChecksumLoop(SubSeq(Padded(msg), 1, 2 * (k - 1)), 1, 0)]

\* the byte string a checksum is about to be computed of
InitSum ==
    /\ EngineIdle
    /\ _sequence = 0
    /\ _completed = 0
    /\ fn = "args"
    /\ arg \in Messages
    /\ res = <<>>

\* csum = Icmp._checksum(msg)
ApplySum ==
    /\ fn = "args"
    /\ fn' = "sum"
    /\ res' = [csum |-> Checksum(arg), sums |-> RunningSums(arg)]
    /\ UNCHANGED <<runvars, arg>>

NextSum == ApplySum

SpecSum == InitSum /\ [][NextSum]_vars

----------------------------------------------------------------------------
(* Properties                                                              *)

\* the sequence field of the i-th packet handed to sendto()
SentSequence(i) == StructUnpack(SubSeq(sent[i], 1, HeaderLen)).sequence
\* the printed rows, in order
Rows == SelectSeq(printed, LAMBDA l : l.line = "row")
\* run() has ended
Ended == pc \in {"done", "raised"}
\* the value of -c, when set
N == The(cycles)

\* C1: the Echo Requests sent carry the sequence numbers 1, 2, 3, ... in
\* that order, whatever ended the cycles before them.
C1_SequenceNumbers == \A i \in 1..Len(sent) : SentSequence(i) = i

\* three requests sent, one cycle ended by a match and two by a timeout
C1_Witness ==
    /\ Len(sent) = 3
    /\ pc = "summary"
    /\ _completed = 1
    /\ ev = "timeout"

\* the datagram at the head of the socket's queue decodes, and its type is
\* not Echo Reply or its identifier is not this run's
HeadMismatches ==
    /\ net # <<>>
    /\ Unpack(Head(net)).ok
    /\ \/ Unpack(Head(net)).f.icmp_type # TYPE_ECHO_REPLY
       \/ Unpack(Head(net)).f.identity # The(identity)

\* C2: receiving a datagram of another type or another identifier leaves
\* the wait loop polling and the received count, the samples and the
\* sequence as they were.
C2_MismatchDiscarded ==
    [][(pc = "wait" /\ HeadMismatches /\ net' = Tail(net))
         => /\ ev' = "discard"
            /\ pc' = "wait"
            /\ received' = FALSE
            /\ _completed' = _completed
            /\ _stats' = _stats
            /\ _sequence' = _sequence
            /\ sent' = sent]_vars

\* a datagram was discarded in the second cycle, after a match in the first
C2_Witness ==
    /\ ev = "discard"
    /\ pc = "wait"
    /\ _sequence = 2
    /\ _completed = 1

\* C3: with cycles 0 or unset the loop never reaches the summary.
C3_ZeroIsUnbounded ==
    (cycles = None \/ cycles = Some(0)) => pc \notin {"summary", "done"}

\* C4: a malformed datagram is discarded and the wait loop goes on.
C4_MalformedNotFatal == ev = "error" => (pc = "wait" /\ err = "None")

\* C5: over a transport that answers every request, a run of N >= 1 cycles
\* that reaches its summary has transmitted N, received N, lost 0 percent
\* and recorded N samples, the i-th being that of the request of sequence i.
C5_EchoRun ==
    (transport = "echo" /\ cycles # None /\ pc \in {"summary", "done"}
        /\ N >= 1)
    => /\ _sequence = N
       /\ _completed = N
       /\ PacketLoss(_completed, _sequence) = 0
       /\ Len(_stats) = N
       /\ Len(Rows) = N
       /\ \A i \in 1..N : Rows[i].icmp_seq = i /\ Rows[i].time = _stats[i]
       /\ N = Len(sent)
       /\ pc = "done" =>
            /\ printed[Len(printed) - 1].transmitted = N
            /\ printed[Len(printed) - 1].received = N
            /\ printed[Len(printed) - 1].packet_loss = 0

\* a run of three answered cycles has printed its summary
C5_Witness ==
    /\ transport = "echo"
    /\ cycles = Some(3)
    /\ pc = "done"
    /\ Len(_stats) = 3

\* C6: over a transport that never replies, every cycle of a run of N >= 1
\* cycles ends by timeout; at the summary transmitted is N, received 0 and
\* the loss 100; the summary ends in the no-samples error (the ValueError
\* of min() on the empty list) and no rtt line is printed.
C6_SilentRun ==
    (transport = "silent" /\ cycles # None /\ pc # "main" /\ N >= 1)
    => /\ ev \in {"none", "timeout"}
       /\ _completed = 0
       /\ _stats = <<>>
       /\ pc # "done"
       /\ pc = "summary" =>
            /\ _sequence = N
            /\ Len(sent) = N
            /\ PacketLoss(_completed, _sequence) = 100
       /\ err = "ValueError" =>
            /\ pc = "raised"
            /\ printed[Len(printed)] =
                 [line |-> "statistics", transmitted |-> N, received |-> 0,
                  packet_loss |-> 100, time |-> 0]
            /\ \A i \in 1..Len(printed) : printed[i].line # "rtt"

\* three unanswered cycles, then the summary failed for want of samples
C6_Witness ==
    /\ transport = "silent"
    /\ cycles = Some(3)
    /\ err = "ValueError"
    /\ Len(sent) = 3

\* C7: a request is sent only after the wait loop of the cycle before it
\* ended, each sequence number is sent once, and a wait loop ends only by
\* an accepted reply or by a poll that reports no data.
C7_OneInFlight ==
    [][/\ (Len(sent') > Len(sent)) =>
            /\ pc = "loop"
            /\ sent # <<>> => ev \in {"match", "timeout"}
            /\ \A i \in 1..Len(sent) :
                   SentSequence(i) #
                       StructUnpack(SubSeq(sent'[Len(sent')], 1,
                                           HeaderLen)).sequence
       /\ (pc = "wait" /\ pc' # "wait") => ev' \in {"match", "timeout"}
      ]_vars

\* C8: in no terminal state of the run is the socket still open.
C8_SocketReleased == Ended => _socket # "open"

\* C9: the loss is 100 when nothing was received and otherwise
\* 100 - 100 * q, q the integer quotient of received by transmitted; so
\* 10/0 gives 100, 4/4 gives 0 and 3/1 gives 100.
C9_PacketLoss ==
    fn = "packet_loss" =>
        /\ _completed = 0 => res = 100
        /\ _completed > 0 =>
             \E q \in 0.._completed :
                 /\ q * _sequence <= _completed
                 /\ _completed < (q + 1) * _sequence
                 /\ res = 100 - 100 * q
        /\ (_sequence = 10 /\ _completed = 0) => res = 100
        /\ (_sequence = 4 /\ _completed = 4) => res = 0
        /\ (_sequence = 3 /\ _completed = 1) => res = 100

\* the loss of one reply to three requests was computed
C9_Witness ==
    /\ fn = "packet_loss"
    /\ _sequence = 3
    /\ _completed = 1
    /\ res = 100

\* C10: the checksum of the whole packet pack() returns, its checksum field
\* as emitted, is 0.
C10_ChecksumRoundTrip == fn = "checksum" => res.csum = 0

\* the checksum of a packet with an odd payload and a carry was computed
C10_Witness ==
    /\ fn = "checksum"
    /\ arg.identity = 65535
    /\ arg.data = <<255, 255, 255>>
    /\ res.csum = 0

\* C11: for every 16-bit identifier and sequence and every payload, pack
\* succeeds and unpack of its packet behind a 20-byte IP header returns
\* type 8, code 0 and the same identifier, sequence and payload.
C11_DecodeInvertsEncode ==
    (arg.identity \in 0..65535 /\ arg.sequence \in 0..65535) =>
        /\ fn = "pack" => res.ok
        /\ fn = "unpack" =>
             /\ res.ok
             /\ res.f.icmp_type = TYPE_ECHO_REQUEST
             /\ res.f.icmp_code = 0
             /\ res.f.identity = arg.identity
             /\ res.f.sequence = arg.sequence
             /\ res.data = arg.data

\* the same, for the sequences struct's 'h' accepts
RoundTripWithinSignedShort ==
    (arg.identity \in 0..65535 /\ arg.sequence \in 0..32767) =>
        /\ fn = "pack" => res.ok
        /\ fn = "unpack" =>
             /\ res.ok
             /\ res.f.icmp_type = TYPE_ECHO_REQUEST
             /\ res.f.icmp_code = 0
             /\ res.f.identity = arg.identity
             /\ res.f.sequence = arg.sequence
             /\ res.data = arg.data

\* m is the integer nearest to sqrt(a / b), stated by squaring:
\* (m - 1/2)^2 <= a / b < (m + 1/2)^2
NearestToSqrt(m, a, b) ==
    /\ m >= 0
    /\ (m = 0 \/ a - (m * m - m) * b >= (b + 3) \div 4)
    /\ (m * m + m) * b - a >= 0 - ((b - 1) \div 4)

\* C12: of a non-empty list of samples, min and max are the smallest and
\* the largest sample, avg the arithmetic mean and mdev the population
\* standard deviation (the root of the mean squared deviation), each to the
\* nearest thousandth; [10, 20, 30] gives 10.0, 20.0, 30.0 and 8.165.
C12_RttStats ==
    fn = "rtt" =>
        LET n == Len(arg)
            sum == Sum(arg)
        IN  /\ \E i \in 1..n : res.min = 1000 * arg[i]
            /\ \A i \in 1..n : res.min <= 1000 * arg[i]
            /\ \E i \in 1..n : res.max = 1000 * arg[i]
            /\ \A i \in 1..n : res.max >= 1000 * arg[i]
            /\ 2 * (n * res.avg - 1000 * sum) <= n
            /\ 2 * (1000 * sum - n * res.avg) <= n
            /\ NearestToSqrt(res.mdev,
                             1000000 * (n * SumSq(arg) - sum * sum), n * n)
            /\ arg = <<10, 20, 30>> =>
                  res = [min |-> 10000, avg |-> 20000, max |-> 30000,
                         mdev |-> 8165]

\* the statistics of [10, 20, 30] were computed
C12_Witness ==
    /\ fn = "rtt"
    /\ arg = <<10, 20, 30>>
    /\ res.mdev = 8165

\* C13: when opening the socket fails no cycle runs (the sequence stays 0,
\* nothing is sent or printed); when resolving the destination fails the
\* request of that cycle is not sent; after either error nothing more is
\* sent and no summary is printed.
C13_FatalErrors ==
    [][/\ err' = "socket.error" =>
            /\ pc' = "raised"
            /\ _sequence' = 0
            /\ sent' = <<>>
            /\ printed' = <<>>
       /\ err' = "socket.gaierror" =>
            /\ pc' = "raised"
            /\ Len(sent') = _sequence' - 1
            /\ \A i \in 1..Len(printed') :
                   printed'[i].line \notin {"statistics", "rtt"}
       /\ err \in {"socket.error", "socket.gaierror"} =>
            /\ pc' = pc
            /\ sent' = sent
            /\ printed' = printed
      ]_vars

\* the destination failed to resolve in the second cycle
C13_Witness ==
    /\ err = "socket.gaierror"
    /\ pc = "raised"
    /\ _sequence = 2
    /\ Len(sent) = 1

\* C14: a reply is accepted in the cycle of sequence k only if its own
\* sequence is k.
C14_SequenceMatches ==
    (pc = "sleep" /\ ev = "match") => Rows[Len(Rows)].icmp_seq = _sequence

\* C15: every match is followed by exactly one sleep before the next send,
\* and a timeout by none: outside the sleep itself there have been as many
\* sleeps as matches.
C15_SleepOnlyAfterMatch ==
    /\ pc = "sleep" => (ev = "match" /\ sleeps = _completed - 1)
    /\ pc # "sleep" => sleeps = _completed

\* the third request was sent straight after a timeout, one sleep so far
C15_Witness ==
    /\ pc = "wait"
    /\ _sequence = 3
    /\ ev = "timeout"
    /\ _completed = 1
    /\ sleeps = 1

\* receive() returns False: a datagram is taken off the socket and dropped
DiscardStep ==
    /\ pc = "wait"
    /\ net # <<>>
    /\ net' = Tail(net)
    /\ ev' = "discard"

\* run() has sent exactly N requests and stands at the summary
SummaryAfterN == pc = "summary" /\ Len(sent) = N /\ _sequence = N

\* C16: a run of N >= 1 cycles in which only finitely many datagrams are
\* discarded, and which no fatal error ends, reaches the summary having
\* sent exactly N requests.
C16_BoundedRunTerminates ==
    (<>[][~DiscardStep]_vars) =>
        ((pc = "run" /\ cycles # None /\ N >= 1)
            ~> (pc = "raised" \/ SummaryAfterN))

\* the same without the proviso on discarded datagrams
TerminatesRegardless ==
    (pc = "run" /\ cycles # None /\ N >= 1)
        ~> (pc = "raised" \/ SummaryAfterN)

\* a run of three cycles over the open network stands at its summary
C16_Witness ==
    /\ transport = "any"
    /\ cycles = Some(3)
    /\ SummaryAfterN
    /\ _completed = 2


----------------------------------------------------------------------------
(* C17                                                                     *)

\* the 16-bit words of a padded byte string, low byte first as _checksum
\* assembles them
Words(msg) ==
    [k \in 1..(Len(Padded(msg)) \div 2) |->
        Padded(msg)[2 * k - 1] + Padded(msg)[2 * k] * 256]

\* the same byte string read as big-endian words
WordsBigEndian(msg) ==
    [k \in 1..(Len(Padded(msg)) \div 2) |->
        Padded(msg)[2 * k - 1] * 256 + Padded(msg)[2 * k]]

\* sum = (sum & 0xFFFF) + (sum >> 16), repeated until no carry remains
RECURSIVE FoldCarries(_)
FoldCarries(s) ==
    IF s \div 65536 = 0 THEN s
    ELSE FoldCarries((s % 65536) + (s \div 65536))

\* add all the words, fold the carries, complement and mask to 16 bits
FoldAtEnd(words) == 65535 - (FoldCarries(Sum(words)) % 65536)

\* the two bytes of a 16-bit value exchanged
SwapBytes(v) == (v % 256) * 256 + (v \div 256)

\* C17: for every byte string, _checksum, which folds the carry after each
\* word, returns the value of the algorithm that adds all the 16-bit words,
\* folds the carries until none remains, complements and masks; the
\* running sum is within 0..0xFFFF after every word, and so is the result.
C17_ChecksumFoldsAlike ==
    fn = "sum" =>
        /\ res.csum = FoldAtEnd(Words(arg))
        /\ \A k \in DOMAIN res.sums : res.sums[k] \in 0..65535
        /\ res.csum \in 0..65535

\* read as big-endian words the algorithm gives the same two bytes: its
\* value is the returned one with the bytes exchanged, which is what the
\* native 'H' of pack() writes on a little-endian host
ChecksumOnTheWire ==
    fn = "sum" => res.csum = SwapBytes(FoldAtEnd(WordsBigEndian(arg)))

\* a sum that carries twice when folded at the end: 0xFFFF + 0xFFFF + 1
C17_Witness ==
    /\ fn = "sum"
    /\ Len(arg) = 6
    /\ Sum(Words(arg)) = 131071
    /\ res.csum = 65534


----------------------------------------------------------------------------
(* C18                                                                     *)

\* run() is at its loop head, between two cycles, or computes the summary
AtBoundary == pc \in {"loop", "summary"}

\* the counters as the cycle that ended last began
CycleStart == The(cycle_start)

\* the samples agree with the received count, which the transmitted count
\* bounds
CountersAgree == Len(_stats) = _completed /\ _completed <= _sequence

\* the cycle that ended last added at most one sample and at most one to
\* received
AtMostOnePerCycle ==
    cycle_start # None =>
        /\ _completed - CycleStart.completed \in {0, 1}
        /\ Len(_stats) - Len(CycleStart.stats) \in {0, 1}

\* a step leaves the recorded samples where they are and at most appends
SamplesOnlyAppended ==
    /\ Len(_stats') >= Len(_stats)
    /\ SubSeq(_stats', 1, Len(_stats)) = _stats

\* C18: at every cycle boundary and when the summary is computed the
\* number of samples equals _completed and _completed <= _sequence; each
\* cycle adds at most one sample and at most one to received; samples are
\* only appended, never removed or changed.
C18_CountersInvariant ==
    /\ [](AtBoundary => CountersAgree /\ AtMostOnePerCycle)
    /\ [][SamplesOnlyAppended]_vars

\* a summary after three cycles of which two recorded a sample
C18_Witness ==
    /\ pc = "summary"
    /\ _sequence = 3
    /\ _completed = 2
    /\ Len(_stats) = 2
    /\ CycleStart.completed = 2


----------------------------------------------------------------------------
(* C19                                                                     *)

\* the cycle that ended last ended by a timeout and the next one has not
\* begun
AfterTimedOutCycle == AtBoundary /\ ev = "timeout"

\* C19: from the start of a cycle that ends by timeout to the start of the
\* next one, the received count, the list of samples and the identifier are
\* unchanged and the sequence has grown by exactly 1.
C19_TimeoutFrame ==
    AfterTimedOutCycle =>
        /\ cycle_start # None
        /\ _completed = CycleStart.completed
        /\ _stats = CycleStart.stats
        /\ identity = CycleStart.identity
        /\ _sequence = CycleStart.sequence + 1

\* the third cycle timed out after two samples had been recorded
C19_Witness ==
    /\ pc = "loop"
    /\ ev = "timeout"
    /\ _sequence = 3
    /\ CycleStart.sequence = 2
    /\ Len(_stats) = 2
    /\ _request_time = Some(1)


----------------------------------------------------------------------------
(* C20                                                                     *)

\* the statistics lines printed so far
StatisticsLines == SelectSeq(printed, LAMBDA l : l.line = "statistics")

\* a loss of 0 or 100, 0 exactly when everything sent came back
AllOrNothing(loss, rcvd, transmitted) ==
    /\ loss \in {0, 100}
    /\ loss = 0 <=> rcvd = transmitted

\* C20: whenever run() computes the summary of a run that sent at least
\* one request, the reported packet loss is 0 or 100, and 0 exactly when
\* received = transmitted; no run reports a loss strictly between.
C20_LossAllOrNothing ==
    /\ (pc = "summary" /\ _sequence >= 1) =>
           AllOrNothing(PacketLoss(_completed, _sequence),
                        _completed, _sequence)
    /\ \A i \in DOMAIN StatisticsLines :
           StatisticsLines[i].transmitted >= 1 =>
               AllOrNothing(StatisticsLines[i].packet_loss,
                            StatisticsLines[i].received,
                            StatisticsLines[i].transmitted)

\* a summary that reports 100% loss although one of three replies came
C20_Witness ==
    /\ pc = "done"
    /\ Len(StatisticsLines) = 1
    /\ StatisticsLines[1].transmitted = 3
    /\ StatisticsLines[1].received = 1
    /\ StatisticsLines[1].packet_loss = 100

====
